---- MODULE Spec2Model ----
(***************************************************************************)
(* Model of rust/src/storage/config.rs of delta-rs: StorageOptions (the    *)
(* string-keyed option bag with its environment overlay and its typed      *)
(* provider views) and ObjectStoreKind (URL classification, construction   *)
(* of the object store, and the prefix handler).                           *)
(*                                                                         *)
(* Strings the code inspects character by character (option keys, URL      *)
(* schemes, hosts and paths) are sequences of one-character strings, so    *)
(* that to_ascii_lowercase, contains and Path::from are computed rather    *)
(* than assumed.  Option values are opaque and are plain strings.          *)
(***************************************************************************)
EXTENDS Integers, Sequences, FiniteSets, TLC

VARIABLES
    env,        \* the process environment: the three variables new() reads
    opts,       \* the StorageOptions instance held by the caller
    ret,        \* the last call made and what it returned
    view,       \* the last typed provider view taken and the bag it was taken of
    features,   \* the cargo features this build was compiled with
    built,      \* the into_impl call made, with the handle or error it returned
    store       \* the content of the raw object store behind that handle

vars == <<env, opts, ret, view, features, built, store>>

----------------------------------------------------------------------------
(* Bounds of the model.                                                    *)

\* largest number of entries in a raw option bag handed to new()
MaxBagSize == 2

----------------------------------------------------------------------------
(* Character strings.                                                      *)

S_allow_http        == <<"a", "l", "l", "o", "w", "_", "h", "t", "t", "p">>
S_ALLOW_HTTP        == <<"A", "L", "L", "O", "W", "_", "H", "T", "T", "P">>
S_AWS_ALLOW_HTTP    == <<"A", "W", "S", "_", "A", "L", "L", "O", "W", "_", "H", "T", "T", "P">>
S_AWS_ACCESS_KEY_ID == <<"A", "W", "S", "_", "A", "C", "C", "E", "S", "S", "_", "K", "E", "Y", "_", "I", "D">>
S_aws_access_key_id == <<"a", "w", "s", "_", "a", "c", "c", "e", "s", "s", "_", "k", "e", "y", "_", "i", "d">>
S_access_key_id     == <<"a", "c", "c", "e", "s", "s", "_", "k", "e", "y", "_", "i", "d">>
S_bucket            == <<"b", "u", "c", "k", "e", "t">>
S_bucket_name       == <<"b", "u", "c", "k", "e", "t", "_", "n", "a", "m", "e">>
S_aws_bucket        == <<"a", "w", "s", "_", "b", "u", "c", "k", "e", "t">>
S_google_bucket     == <<"g", "o", "o", "g", "l", "e", "_", "b", "u", "c", "k", "e", "t">>
S_account_name      == <<"a", "c", "c", "o", "u", "n", "t", "_", "n", "a", "m", "e">>
S_azure_storage_account_name == <<"a", "z", "u", "r", "e", "_", "s", "t", "o", "r", "a", "g", "e", "_", "a", "c", "c", "o", "u", "n", "t", "_", "n", "a", "m", "e">>
S_bogus_key         == <<"b", "o", "g", "u", "s", "_", "k", "e", "y">>

UpperToLower ==
    ("A" :> "a") @@ ("B" :> "b") @@ ("C" :> "c") @@ ("D" :> "d") @@ ("E" :> "e") @@
    ("F" :> "f") @@ ("G" :> "g") @@ ("H" :> "h") @@ ("I" :> "i") @@ ("J" :> "j") @@
    ("K" :> "k") @@ ("L" :> "l") @@ ("M" :> "m") @@ ("N" :> "n") @@ ("O" :> "o") @@
    ("P" :> "p") @@ ("Q" :> "q") @@ ("R" :> "r") @@ ("S" :> "s") @@ ("T" :> "t") @@
    ("U" :> "u") @@ ("V" :> "v") @@ ("W" :> "w") @@ ("X" :> "x") @@ ("Y" :> "y") @@
    ("Z" :> "z")

\* str::to_ascii_lowercase
to_ascii_lowercase(s) ==
    [i \in 1..Len(s) |-> IF s[i] \in DOMAIN UpperToLower THEN UpperToLower[s[i]] ELSE s[i]]

\* str::contains with a string pattern: pat occurs somewhere in s
contains(s, pat) ==
    \E i \in 0..(Len(s) - Len(pat)) : SubSeq(s, i + 1, i + Len(pat)) = pat

----------------------------------------------------------------------------
(* The inputs the model draws from.                                        *)

\* option keys a caller may pass: spellings of the allow-http setting ...
HttpKeys == {S_allow_http, S_ALLOW_HTTP, S_AWS_ALLOW_HTTP, S_bogus_key}

\* ... names of the provider vocabularies ...
ProviderKeys ==
    {S_AWS_ACCESS_KEY_ID, S_access_key_id, S_bucket, S_account_name, S_bogus_key}

\* ... and names that meet in one typed key
AliasKeys == {S_AWS_ACCESS_KEY_ID, S_access_key_id, S_bogus_key}

\* option values and environment values
Values == {"true", "0"}

\* HashMap<String, String> as a function from its keys to their values
BagsOver(keys) ==
    UNION { [D -> Values] : D \in {S \in SUBSET keys : Cardinality(S) <= MaxBagSize} }

EmptyBag == [k \in {} |-> "0"]

\* HashMap::insert
insert(m, k, v) == [x \in (DOMAIN m) \cup {k} |-> IF x = k THEN v ELSE m[x]]

\* The orders in which a HashMap with the key set S may iterate: the order
\* follows from the map's hasher seed and history and is unspecified.
Orders(S) ==
    {f \in [1..Cardinality(S) -> S] : \A i, j \in 1..Cardinality(S) : f[i] = f[j] => i = j}

\* A StorageOptions instance: the map, and its iteration order once a call
\* has observed it (the order of one unmodified instance does not change).
Instance(m) == [map |-> m, observed |-> FALSE, order |-> <<>>]

IterOrders(o) == IF o.observed THEN {o.order} ELSE Orders(DOMAIN o.map)

Observed(o, ord) == [map |-> o.map, observed |-> TRUE, order |-> ord]

EnvNames == {"AZURE_STORAGE_ALLOW_HTTP", "AZURE_STORAGE_USE_HTTP", "AWS_STORAGE_ALLOW_HTTP"}

\* what the environment holds for one name: nothing, a value that is valid
\* Unicode, or a value that is not
Unset      == [state |-> "unset", value |-> ""]
NotUnicode == [state |-> "not_unicode", value |-> ""]
Present(v) == [state |-> "unicode", value |-> v]
EnvStates  == {Unset, NotUnicode} \cup {Present(v) : v \in Values}

\* std::env::var: Ok(value) only for a variable that is present and valid
\* Unicode; Err(NotPresent) and Err(NotUnicode) otherwise
env_var_is_ok(e, name) == e[name].state = "unicode"
env_var_value(e, name) == e[name].value

----------------------------------------------------------------------------
(* StorageOptions.                                                         *)

\* super::utils::str_is_truthy
str_is_truthy(value) == value \in {"1", "true"}

AwsFirst_new(e, options) ==
    LET o1 == IF env_var_is_ok(e, "AWS_STORAGE_ALLOW_HTTP")
              THEN insert(options, S_allow_http, env_var_value(e, "AWS_STORAGE_ALLOW_HTTP"))
              ELSE options
        o2 == IF env_var_is_ok(e, "AZURE_STORAGE_USE_HTTP")
              THEN insert(o1, S_allow_http, env_var_value(e, "AZURE_STORAGE_USE_HTTP"))
              ELSE o1
        o3 == IF env_var_is_ok(e, "AZURE_STORAGE_ALLOW_HTTP")
              THEN insert(o2, S_allow_http, env_var_value(e, "AZURE_STORAGE_ALLOW_HTTP"))
              ELSE o2
    IN  o3

\* StorageOptions::new, reading the environment e: the map of the new instance
StorageOptions_new(e, options) ==
    LET o1 == IF env_var_is_ok(e, "AZURE_STORAGE_ALLOW_HTTP")
              THEN insert(options, S_allow_http, env_var_value(e, "AZURE_STORAGE_ALLOW_HTTP"))
              ELSE options
        o2 == IF env_var_is_ok(e, "AZURE_STORAGE_USE_HTTP")
              THEN insert(o1, S_allow_http, env_var_value(e, "AZURE_STORAGE_USE_HTTP"))
              ELSE o1
        o3 == IF env_var_is_ok(e, "AWS_STORAGE_ALLOW_HTTP")
              THEN insert(o2, S_allow_http, env_var_value(e, "AWS_STORAGE_ALLOW_HTTP"))
              ELSE o2
    IN  o3

NoLowercase_allow_http(m) ==
    \E key \in DOMAIN m : contains(key, S_allow_http) /\ str_is_truthy(m[key])

ExactKey_allow_http(m) ==
    \E key \in DOMAIN m : key = S_allow_http /\ str_is_truthy(m[key])

\* StorageOptions::allow_http on the map m
allow_http(m) ==
    \E key \in DOMAIN m :
        contains(to_ascii_lowercase(key), S_allow_http) /\ str_is_truthy(m[key])

\* AmazonS3ConfigKey::from_str, AzureConfigKey::from_str and
\* GoogleConfigKey::from_str on the names this model uses; ParseErr is a
\* failed parse
ParseErr == "Err"

AmazonS3ConfigKey_from_str(s) ==
    CASE s \in {S_aws_access_key_id, S_access_key_id} -> "AccessKeyId"
      [] s \in {S_aws_bucket, S_bucket, S_bucket_name} -> "Bucket"
      [] OTHER -> ParseErr

AzureConfigKey_from_str(s) ==
    CASE s \in {S_azure_storage_account_name, S_account_name} -> "AccountName"
      [] OTHER -> ParseErr

GoogleConfigKey_from_str(s) ==
    CASE s \in {S_google_bucket, S_bucket, S_bucket_name} -> "Bucket"
      [] OTHER -> ParseErr

\* iter().filter_map(..).collect() into a HashMap: the entries that parse
\* are inserted in iteration order, a later insert under the same typed key
\* replacing the earlier one.  typed maps each raw key to its typed key or
\* to ParseErr.
RECURSIVE collect(_, _, _)
collect(m, order, typed) ==
    IF order = <<>> THEN EmptyBag
    ELSE LET key == order[Len(order)]
             acc == collect(m, SubSeq(order, 1, Len(order) - 1), typed)
         IN  IF typed[key] = ParseErr THEN acc ELSE insert(acc, typed[key], m[key])

NoLowercase_as_s3_options(m, order) ==
    collect(m, order, [key \in DOMAIN m |-> AmazonS3ConfigKey_from_str(key)])

\* StorageOptions::as_s3_options on the map m iterating in the given order
as_s3_options(m, order) ==
    collect(m, order,
        [key \in DOMAIN m |-> AmazonS3ConfigKey_from_str(to_ascii_lowercase(key))])

\* StorageOptions::as_azure_options
as_azure_options(m, order) ==
    collect(m, order,
        [key \in DOMAIN m |-> AzureConfigKey_from_str(to_ascii_lowercase(key))])

\* StorageOptions::as_gcs_options
as_gcs_options(m, order) ==
    collect(m, order,
        [key \in DOMAIN m |-> GoogleConfigKey_from_str(to_ascii_lowercase(key))])

----------------------------------------------------------------------------
(* The calls on StorageOptions as steps of the caller.                     *)

NoView == [op |-> "none"]

NoBuilt == [op |-> "none"]

\* the process environment changes between calls
SetEnv(states) ==
    \E name \in EnvNames, st \in states :
        /\ env[name] # st
        /\ env' = [env EXCEPT ![name] = st]
        /\ ret' = [op |-> "set_env"]
        /\ UNCHANGED <<opts, view, features, built, store>>

\* StorageOptions::new(raw), also reached through From<HashMap>
New(bags) ==
    \E raw \in bags :
        /\ opts' = Instance(StorageOptions_new(env, raw))
        /\ ret' = [op |-> "new", raw |-> raw]
        /\ UNCHANGED <<env, view, features, built, store>>

AllowHttp ==
    /\ ret' = [op |-> "allow_http", self |-> opts.map, res |-> allow_http(opts.map)]
    /\ UNCHANGED <<env, opts, view, features, built, store>>

AsS3Options ==
    \E ord \in IterOrders(opts) :
        /\ opts' = Observed(opts, ord)
        /\ view' = [op |-> "as_s3_options", self |-> opts.map,
                    res |-> as_s3_options(opts.map, ord)]
        /\ ret' = [op |-> "as_s3_options"]
        /\ UNCHANGED <<env, features, built, store>>

AsAzureOptions ==
    \E ord \in IterOrders(opts) :
        /\ opts' = Observed(opts, ord)
        /\ view' = [op |-> "as_azure_options", self |-> opts.map,
                    res |-> as_azure_options(opts.map, ord)]
        /\ ret' = [op |-> "as_azure_options"]
        /\ UNCHANGED <<env, features, built, store>>

AsGcsOptions ==
    \E ord \in IterOrders(opts) :
        /\ opts' = Observed(opts, ord)
        /\ view' = [op |-> "as_gcs_options", self |-> opts.map,
                    res |-> as_gcs_options(opts.map, ord)]
        /\ ret' = [op |-> "as_gcs_options"]
        /\ UNCHANGED <<env, features, built, store>>

\* Construction under a changing environment, and allow_http().
InitOptions ==
    /\ env = [name \in EnvNames |-> Unset]
    /\ opts = Instance(EmptyBag)
    /\ ret = [op |-> "init"]
    /\ view = NoView
    /\ features = {}
    /\ built = NoBuilt
    /\ store = EmptyBag

NextOptions ==
    \/ SetEnv(EnvStates)
    \/ New(BagsOver(HttpKeys))
    \/ AllowHttp

SpecOptions == InitOptions /\ [][NextOptions]_vars

\* The same under an environment all of whose values are valid Unicode.
NextOverride ==
    \/ SetEnv({Unset} \cup {Present(v) : v \in Values})
    \/ New(BagsOver(HttpKeys))
    \/ AllowHttp

SpecOverride == InitOptions /\ [][NextOverride]_vars

\* The typed views of an instance constructed from any raw bag.
InitViews ==
    /\ env \in [EnvNames -> {Unset, Present("true")}]
    /\ \E raw \in BagsOver(ProviderKeys) :
          /\ opts = Instance(StorageOptions_new(env, raw))
          /\ ret = [op |-> "new", raw |-> raw]
    /\ view = NoView
    /\ features = {}
    /\ built = NoBuilt
    /\ store = EmptyBag

NextViews ==
    \/ AsS3Options
    \/ AsAzureOptions
    \/ AsGcsOptions

SpecViews == InitViews /\ [][NextViews]_vars

\* Views of successive instances, some of them with equal maps.
InitAlias ==
    /\ env = [name \in EnvNames |-> Unset]
    /\ opts = Instance(EmptyBag)
    /\ ret = [op |-> "init"]
    /\ view = NoView
    /\ features = {}
    /\ built = NoBuilt
    /\ store = EmptyBag

NextAlias ==
    \/ New(BagsOver(AliasKeys))
    \/ AsS3Options
    \/ AsAzureOptions
    \/ AsGcsOptions

SpecAlias == InitAlias /\ [][NextAlias]_vars

----------------------------------------------------------------------------
(* URLs.                                                                   *)

\* largest number of fragments a host name of the model is put together from
MaxHostParts == 2

S_file                  == <<"f", "i", "l", "e">>
S_memory                == <<"m", "e", "m", "o", "r", "y">>
S_az                    == <<"a", "z">>
S_abfs                  == <<"a", "b", "f", "s">>
S_abfss                 == <<"a", "b", "f", "s", "s">>
S_azure                 == <<"a", "z", "u", "r", "e">>
S_wasb                  == <<"w", "a", "s", "b">>
S_adl                   == <<"a", "d", "l">>
S_s3                    == <<"s", "3">>
S_s3a                   == <<"s", "3", "a">>
S_gs                    == <<"g", "s">>
S_hdfs                  == <<"h", "d", "f", "s">>
S_https                 == <<"h", "t", "t", "p", "s">>
S_http                  == <<"h", "t", "t", "p">>
S_ftp                   == <<"f", "t", "p">>
S_amazonaws_com         == <<"a", "m", "a", "z", "o", "n", "a", "w", "s", ".", "c", "o", "m">>
S_dfs_core_windows_net  == <<"d", "f", "s", ".", "c", "o", "r", "e", ".", "w", "i", "n", "d", "o", "w", "s", ".", "n", "e", "t">>
S_blob_core_windows_net == <<"b", "l", "o", "b", ".", "c", "o", "r", "e", ".", "w", "i", "n", "d", "o", "w", "s", ".", "n", "e", "t">>
S_example_com           == <<"e", "x", "a", "m", "p", "l", "e", ".", "c", "o", "m">>
S_x                     == <<"x">>
S_bucket_s3_            == <<"b", "u", "c", "k", "e", "t", ".", "s", "3", ".">>
S_acct_                 == <<"a", "c", "c", "t", ".">>
S_unsupported_url_      == <<"u", "n", "s", "u", "p", "p", "o", "r", "t", "e", "d", " ", "u", "r", "l", ":", " ">>
S_ftp_x                 == <<"f", "t", "p", ":", "/", "/", "x">>
S_slash                 == <<"/">>
S_slash_p               == <<"/", "p">>

Schemes ==
    { S_file, S_memory, S_az, S_abfs, S_abfss, S_azure, S_wasb, S_adl, S_s3, S_s3a,
      S_gs, S_hdfs, S_https, S_http, S_ftp }

\* schemes for which the url crate admits no Url without a host
HostRequired == {S_https, S_http, S_ftp}

HostFragments ==
    { S_amazonaws_com, S_dfs_core_windows_net, S_blob_core_windows_net, S_example_com,
      S_x, S_bucket_s3_, S_acct_ }

RECURSIVE HostsOf(_)
HostsOf(n) ==
    IF n = 0 THEN {<<>>}
    ELSE LET shorter == HostsOf(n - 1)
         IN  shorter \cup {h \o f : h \in shorter, f \in HostFragments}

NoHost == [some |-> FALSE, str |-> <<>>]
Host(h) == [some |-> TRUE, str |-> h]

\* a parsed url::Url: scheme, host and path
UrlsWith(paths) ==
    { u \in [ scheme : Schemes,
              host : {NoHost} \cup {Host(h) : h \in HostsOf(MaxHostParts) \ {<<>>}},
              path : paths ] :
        u.scheme \in HostRequired => u.host.some }

\* Url::host_str().unwrap_or_default()
host_str_or_default(url) == IF url.host.some THEN url.host.str ELSE <<>>

\* Url::as_str, Url::as_ref: the serialization
as_str(url) == url.scheme \o <<":", "/", "/">> \o host_str_or_default(url) \o url.path

----------------------------------------------------------------------------
(* ObjectStoreKind::parse_url.                                             *)

Ok(v) == [ok |-> TRUE, value |-> v]

\* DeltaTableError::Generic(message)
Generic(message) == [ok |-> FALSE, variant |-> "Generic", msg |-> message]

NoKind == "none"

NoAdl_scheme_kind(scheme) ==
    CASE scheme = S_file -> "Local"
      [] scheme = S_memory -> "InMemory"
      [] scheme \in {S_az, S_abfs, S_abfss, S_azure, S_wasb} -> "Azure"
      [] scheme \in {S_s3, S_s3a} -> "S3"
      [] scheme = S_gs -> "Google"
      [] scheme = S_hdfs -> "Hdfs"
      [] OTHER -> NoKind

\* the arms of parse_url's match that name a kind outright
scheme_kind(scheme) ==
    CASE scheme = S_file -> "Local"
      [] scheme = S_memory -> "InMemory"
      [] scheme \in {S_az, S_abfs, S_abfss, S_azure, S_wasb, S_adl} -> "Azure"
      [] scheme \in {S_s3, S_s3a} -> "S3"
      [] scheme = S_gs -> "Google"
      [] scheme = S_hdfs -> "Hdfs"
      [] OTHER -> NoKind

\* str::ends_with
ends_with(s, pat) ==
    Len(pat) <= Len(s) /\ SubSeq(s, Len(s) - Len(pat) + 1, Len(s)) = pat

SuffixMatch_https_kind(host) ==
    IF ends_with(host, S_amazonaws_com) THEN "S3"
    ELSE IF ends_with(host, S_dfs_core_windows_net)
            \/ ends_with(host, S_blob_core_windows_net) THEN "Azure"
    ELSE NoKind

\* the "https" arm of parse_url's match
https_kind(host) ==
    IF contains(host, S_amazonaws_com) THEN "S3"
    ELSE IF contains(host, S_dfs_core_windows_net)
            \/ contains(host, S_blob_core_windows_net) THEN "Azure"
    ELSE NoKind

\* ObjectStoreKind::parse_url
parse_url(url) ==
    LET kind == IF url.scheme = S_https THEN https_kind(host_str_or_default(url))
                ELSE scheme_kind(url.scheme)
    IN  IF kind # NoKind THEN Ok(kind)
        ELSE Generic(S_unsupported_url_ \o as_str(url))

\* parse_url keeps nothing between calls: a behaviour makes one call
ParseUrl ==
    /\ ret.op = "init"
    /\ \E url \in UrlsWith({S_slash, S_slash_p}) :
          /\ ret' = [op |-> "parse_url", url |-> url, res |-> parse_url(url)]
          /\ UNCHANGED <<env, opts, view, features, built, store>>

InitUrl ==
    /\ env = [name \in EnvNames |-> Unset]
    /\ opts = Instance(EmptyBag)
    /\ ret = [op |-> "init"]
    /\ view = NoView
    /\ features = {}
    /\ built = NoBuilt
    /\ store = EmptyBag

NextUrl == ParseUrl

SpecUrl == InitUrl /\ [][NextUrl]_vars

----------------------------------------------------------------------------
(* object_store paths and the prefix handler.                              *)

\* largest number of segments in the path of a URL handed to into_impl
MaxPathSegs == 2

\* largest number of objects the raw store holds
MaxObjects == 2

S_a     == <<"a">>
S_b     == <<"b">>
S_c     == <<"c">>
S_a_c   == <<"a", "/", "c">>
S_failed_hdfs_ == <<"f", "a", "i", "l", "e", "d", " ", "t", "o", " ", "c", "r", "e", "a", "t", "e", " ", "H", "a", "d", "o", "o", "p", "F", "i", "l", "e", "S", "y", "s", "t", "e", "m", " ", "f", "o", "r", " ">>

\* the paths of the URLs: "/", and up to MaxPathSegs segments, each led by
\* "/", a segment being empty, "a" or "b"
RECURSIVE SegmentsUpTo(_)
SegmentsUpTo(n) ==
    IF n = 0 THEN {<<>>}
    ELSE LET shorter == SegmentsUpTo(n - 1)
         IN  shorter \cup {p \o S_slash \o seg : p \in shorter, seg \in {<<>>, S_a, S_b}}

UrlPaths == {IF p = <<>> THEN S_slash ELSE p : p \in SegmentsUpTo(MaxPathSegs)}

\* str::split('/') followed by the filter that drops empty parts: the parts
\* of s, cur being the part under way
RECURSIVE parts_of(_, _)
parts_of(s, cur) ==
    IF s = <<>> THEN (IF cur = <<>> THEN <<>> ELSE <<cur>>)
    ELSE IF s[1] = "/"
         THEN (IF cur = <<>> THEN <<>> ELSE <<cur>>) \o parts_of(Tail(s), <<>>)
         ELSE parts_of(Tail(s), Append(cur, s[1]))

\* object_store::path::Path::from(&str): a Path is the sequence of its parts
Path_from(s) == parts_of(s, <<>>)

NeverWrap_url_prefix_handler(client, storage_url) ==
    [wrapped |-> FALSE, prefix |-> <<>>, inner |-> client]

\* ObjectStoreKind::url_prefix_handler: the raw client, or a PrefixStore
\* around it
url_prefix_handler(client, storage_url) ==
    LET prefix == Path_from(storage_url.path)
    IN  IF prefix # Path_from(S_slash)
        THEN [wrapped |-> TRUE, prefix |-> prefix, inner |-> client]
        ELSE [wrapped |-> FALSE, prefix |-> <<>>, inner |-> client]

\* PrefixStore::full_path
full_path(prefix, location) == prefix \o location

\* Path::prefix_match: whether the parts of prefix lead those of path
prefix_match(path, prefix) ==
    Len(prefix) <= Len(path) /\ SubSeq(path, 1, Len(prefix)) = prefix

\* PrefixStore::strip_prefix
strip_prefix(prefix, path) ==
    IF prefix_match(path, prefix) THEN SubSeq(path, Len(prefix) + 1, Len(path)) ELSE path

\* The raw client: put, get, delete and list(Some(prefix)) of an ObjectStore
\* whose content is the function st from paths to values.
NotFound == [ok |-> FALSE, variant |-> "NotFound"]

raw_put(st, path, value) == insert(st, path, value)

raw_get(st, path) == IF path \in DOMAIN st THEN Ok(st[path]) ELSE NotFound

raw_delete(st, path) == [q \in (DOMAIN st) \ {path} |-> st[q]]

raw_list(st, prefix) == {q \in DOMAIN st : prefix_match(q, prefix) /\ q # prefix}

\* The operations of the handle into_impl returned: those of the raw client,
\* or those of PrefixStore, which forwards full_path(location) and strips
\* the prefix from the paths it hands back.
handle_put(h, st, location, value) ==
    IF h.wrapped THEN raw_put(st, full_path(h.prefix, location), value)
    ELSE raw_put(st, location, value)

handle_get(h, st, location) ==
    IF h.wrapped THEN raw_get(st, full_path(h.prefix, location))
    ELSE raw_get(st, location)

handle_delete(h, st, location) ==
    IF h.wrapped THEN raw_delete(st, full_path(h.prefix, location))
    ELSE raw_delete(st, location)

handle_list(h, st) ==
    IF h.wrapped THEN {strip_prefix(h.prefix, q) : q \in raw_list(st, h.prefix)}
    ELSE raw_list(st, <<>>)

----------------------------------------------------------------------------
(* ObjectStoreKind::into_impl.                                             *)

Kinds == {"Local", "InMemory", "S3", "Google", "Azure", "Hdfs"}

Features == {"s3", "s3-native-tls", "azure", "gcs", "hdfs"}

\* DeltaTableError::MissingFeature { feature, url }
MissingFeature(feature, url) ==
    [ok |-> FALSE, variant |-> "MissingFeature", feature |-> feature, url |-> url]

\* an error of a provider call, converted by the ? operator
ProviderError(call) == [ok |-> FALSE, variant |-> "ObjectStore", source |-> call]

\* the cfg conditions of the arms of into_impl
enabled(kind, feats) ==
    CASE kind = "S3" -> ("s3" \in feats \/ "s3-native-tls" \in feats)
      [] kind = "Azure" -> "azure" \in feats
      [] kind = "Google" -> "gcs" \in feats
      [] kind = "Hdfs" -> "hdfs" \in feats
      [] OTHER -> TRUE

AlwaysGcs_missing_feature(kind, storage_url) ==
    MissingFeature("gcs", as_str(storage_url))

\* the arms of into_impl compiled when a feature is off
missing_feature(kind, storage_url) ==
    CASE kind = "S3" -> MissingFeature("s3", as_str(storage_url))
      [] kind = "Azure" -> MissingFeature("azure", as_str(storage_url))
      [] kind = "Google" -> MissingFeature("gcs", as_str(storage_url))
      [] kind = "Hdfs" -> MissingFeature("hdfs", as_str(storage_url))

\* What lies outside this code and decides a call: whether the process
\* environment holds provider defaults, and which provider call fails, if
\* it is reached.
Outcomes(kind) ==
    CASE kind \in {"Local", "InMemory"} -> {[defaults |-> FALSE, fails |-> "none"]}
      [] kind = "Hdfs" ->
            [defaults : {FALSE}, fails : {"none", "HadoopFileSystem::new"}]
      [] kind = "S3" ->
            [defaults : BOOLEAN,
             fails : {"none", "try_with_options", "build", "S3StorageBackend::try_new"}]
      [] OTHER -> [defaults : BOOLEAN, fails : {"none", "try_with_options", "build"}]

\* the typed key the environment default of the model is held under
DefaultKey(kind) ==
    CASE kind = "S3" -> "AccessKeyId"
      [] kind = "Azure" -> "AccountName"
      [] OTHER -> "Bucket"

\* AmazonS3Builder::from_env, MicrosoftAzureBuilder::from_env and
\* GoogleCloudStorageBuilder::from_env: a builder holding what the process
\* environment provides
from_env(kind, ext) ==
    [ url |-> <<>>,
      options |-> IF ext.defaults THEN (DefaultKey(kind) :> "env") ELSE EmptyBag,
      allow_http |-> ext.defaults ]

\* with_url, try_with_options and with_allow_http of the three builders
with_url(b, url) == [b EXCEPT !.url = url]

try_with_options(b, typed) ==
    [b EXCEPT !.options = [t \in (DOMAIN b.options) \cup (DOMAIN typed) |->
                              IF t \in DOMAIN typed THEN typed[t] ELSE b.options[t]]]

with_allow_http(b, flag) == [b EXCEPT !.allow_http = flag]

\* the typed view an arm hands to try_with_options
typed_view(kind, m, order) ==
    CASE kind = "S3" -> as_s3_options(m, order)
      [] kind = "Azure" -> as_azure_options(m, order)
      [] kind = "Google" -> as_gcs_options(m, order)

OptionsBeforeUrl_provider_arm(kind, storage_url, m, order, ext) ==
    LET b1 == from_env(kind, ext)
        b2 == try_with_options(b1, typed_view(kind, m, order))
        b3 == with_url(b2, as_str(storage_url))
        b4 == IF kind = "Google" THEN b3 ELSE with_allow_http(b3, allow_http(m))
        c3 == <<"from_env", "try_with_options">>
        c4 == IF kind = "Google" THEN c3 \o <<"with_url">>
              ELSE c3 \o <<"with_url", "with_allow_http">>
    IN  IF ext.fails = "try_with_options"
        THEN [res |-> ProviderError("try_with_options"), calls |-> c3]
        ELSE IF ext.fails = "build"
        THEN [res |-> ProviderError("build"), calls |-> c4 \o <<"build">>]
        ELSE IF kind = "S3" /\ ext.fails = "S3StorageBackend::try_new"
        THEN [res |-> ProviderError("S3StorageBackend::try_new"),
              calls |-> c4 \o <<"build", "S3StorageBackend::try_new">>]
        ELSE [res |-> Ok(url_prefix_handler([kind |-> kind, config |-> b4], storage_url)),
              calls |-> c4 \o (IF kind = "S3" THEN <<"build", "S3StorageBackend::try_new">>
                               ELSE <<"build">>)]

\* the arms of into_impl for S3, Azure and Google compiled when the feature
\* is on: the result, and the provider calls made in their order
provider_arm(kind, storage_url, m, order, ext) ==
    LET b1 == from_env(kind, ext)
        b2 == with_url(b1, as_str(storage_url))
        b3 == try_with_options(b2, typed_view(kind, m, order))
        b4 == IF kind = "Google" THEN b3 ELSE with_allow_http(b3, allow_http(m))
        c3 == <<"from_env", "with_url", "try_with_options">>
        c4 == IF kind = "Google" THEN c3 ELSE c3 \o <<"with_allow_http">>
    IN  IF ext.fails = "try_with_options"
        THEN [res |-> ProviderError("try_with_options"), calls |-> c3]
        ELSE IF ext.fails = "build"
        THEN [res |-> ProviderError("build"), calls |-> c4 \o <<"build">>]
        ELSE IF kind = "S3" /\ ext.fails = "S3StorageBackend::try_new"
        THEN [res |-> ProviderError("S3StorageBackend::try_new"),
              calls |-> c4 \o <<"build", "S3StorageBackend::try_new">>]
        ELSE [res |-> Ok(url_prefix_handler([kind |-> kind, config |-> b4], storage_url)),
              calls |-> c4 \o (IF kind = "S3" THEN <<"build", "S3StorageBackend::try_new">>
                               ELSE <<"build">>)]

\* the arm of into_impl for Hdfs compiled when the feature is on
hdfs_arm(storage_url, ext) ==
    IF ext.fails = "HadoopFileSystem::new"
    THEN [res |-> Generic(S_failed_hdfs_ \o as_str(storage_url)),
          calls |-> <<"HadoopFileSystem::new">>]
    ELSE [res |-> Ok(url_prefix_handler([kind |-> "Hdfs", config |-> as_str(storage_url)],
                                        storage_url)),
          calls |-> <<"HadoopFileSystem::new">>]

\* ObjectStoreKind::into_impl of the build with the features feats, on the
\* options map m iterating in the given order
into_impl(kind, storage_url, m, order, feats, ext) ==
    CASE kind = "Local" ->
            [res |-> Ok(url_prefix_handler([kind |-> "Local", config |-> <<>>], storage_url)),
             calls |-> <<"FileStorageBackend::new">>]
      [] kind = "InMemory" ->
            [res |-> Ok(url_prefix_handler([kind |-> "InMemory", config |-> <<>>], storage_url)),
             calls |-> <<"InMemory::new">>]
      [] kind \in {"S3", "Azure", "Google"} /\ enabled(kind, feats) ->
            provider_arm(kind, storage_url, m, order, ext)
      [] kind = "Hdfs" /\ enabled(kind, feats) -> hdfs_arm(storage_url, ext)
      [] OTHER -> [res |-> missing_feature(kind, storage_url), calls |-> <<>>]

\* into_impl(kind, url, raw): options.into() makes the StorageOptions of
\* the raw bag.  Every call builds from scratch; a behaviour makes one.
IntoImpl(kinds, urls, bags) ==
    /\ built.op = "none"
    /\ \E kind \in kinds, url \in urls, raw \in bags :
          LET o == Instance(StorageOptions_new(env, raw))
          IN  \E order \in IterOrders(o), ext \in Outcomes(kind) :
                 LET r == into_impl(kind, url, o.map, order, features, ext)
                 IN  /\ built' = [op |-> "into_impl", kind |-> kind, url |-> url,
                                  options |-> o.map, ext |-> ext,
                                  res |-> r.res, calls |-> r.calls]
                     /\ opts' = Observed(o, order)
                     /\ ret' = [op |-> "into_impl"]
                     /\ store' = EmptyBag
                     /\ UNCHANGED <<env, view, features>>

\* the caller's locations, as the strings Path::from is given
Locations == {S_c, S_a_c}

HasHandle == built.op = "into_impl" /\ built.res.ok

Put ==
    \E loc \in Locations, value \in Values :
        LET st == handle_put(built.res.value, store, Path_from(loc), value)
        IN  /\ HasHandle
            /\ Cardinality(DOMAIN st) <= MaxObjects
            /\ store' = st
            /\ ret' = [op |-> "put", location |-> loc, value |-> value, before |-> store]
            /\ UNCHANGED <<env, opts, view, features, built>>

Get ==
    \E loc \in Locations :
        /\ HasHandle
        /\ ret' = [op |-> "get", location |-> loc,
                   res |-> handle_get(built.res.value, store, Path_from(loc))]
        /\ UNCHANGED <<env, opts, view, features, built, store>>

Delete ==
    \E loc \in Locations :
        /\ HasHandle
        /\ store' = handle_delete(built.res.value, store, Path_from(loc))
        /\ ret' = [op |-> "delete", location |-> loc, before |-> store]
        /\ UNCHANGED <<env, opts, view, features, built>>

List ==
    /\ HasHandle
    /\ ret' = [op |-> "list", res |-> handle_list(built.res.value, store)]
    /\ UNCHANGED <<env, opts, view, features, built, store>>

\* another holder of the raw client writes to it, at any of these paths
RawPut ==
    \E path \in {<<S_c>>, <<S_a, S_c>>, <<S_a, S_b, S_c>>}, value \in Values :
        /\ HasHandle
        /\ Cardinality(DOMAIN raw_put(store, path, value)) <= MaxObjects
        /\ store' = raw_put(store, path, value)
        /\ ret' = [op |-> "raw_put"]
        /\ UNCHANGED <<env, opts, view, features, built>>

\* Any kind, in any build, with options and provider outcomes of every sort.
BuildKeys == {S_allow_http, S_AWS_ACCESS_KEY_ID, S_account_name}

BuildUrls == {[scheme |-> S_s3, host |-> Host(S_x), path |-> p] : p \in {S_slash, S_slash_p}}

InitBuild ==
    /\ env = [name \in EnvNames |-> Unset]
    /\ opts = Instance(EmptyBag)
    /\ ret = [op |-> "init"]
    /\ view = NoView
    /\ features \in SUBSET Features
    /\ built = NoBuilt
    /\ store = EmptyBag

NextBuild == IntoImpl(Kinds, BuildUrls, BagsOver(BuildKeys))

SpecBuild == InitBuild /\ [][NextBuild]_vars

\* An in-memory store under every URL path, and the operations on its handle.
PrefixUrls == {[scheme |-> S_memory, host |-> NoHost, path |-> p] : p \in UrlPaths}

InitPrefix ==
    /\ env = [name \in EnvNames |-> Unset]
    /\ opts = Instance(EmptyBag)
    /\ ret = [op |-> "init"]
    /\ view = NoView
    /\ features = {}
    /\ built = NoBuilt
    /\ store = EmptyBag

NextPrefix ==
    \/ IntoImpl({"InMemory"}, PrefixUrls, {EmptyBag})
    \/ Put
    \/ Get
    \/ Delete
    \/ List
    \/ RawPut

SpecPrefix == InitPrefix /\ [][NextPrefix]_vars

----------------------------------------------------------------------------
(* Claims about StorageOptions.                                            *)

V_AWS   == "AWS_STORAGE_ALLOW_HTTP"
V_USE   == "AZURE_STORAGE_USE_HTTP"
V_ALLOW == "AZURE_STORAGE_ALLOW_HTTP"

\* The allow_http entry new(raw) is to hold, as <<present, value>>, when
\* the variables named in set are the ones that count as set.
OverlayEntry(raw, set) ==
    IF V_AWS \in set THEN <<TRUE, env[V_AWS].value>>
    ELSE IF V_USE \in set THEN <<TRUE, env[V_USE].value>>
    ELSE IF V_ALLOW \in set THEN <<TRUE, env[V_ALLOW].value>>
    ELSE IF S_allow_http \in DOMAIN raw THEN <<TRUE, raw[S_allow_http]>>
    ELSE <<FALSE, "">>

OverlayHolds(raw, m, set) ==
    LET entry == OverlayEntry(raw, set)
    IN  /\ DOMAIN m \subseteq (DOMAIN raw) \cup {S_allow_http}
        /\ \A k \in (DOMAIN raw) \ {S_allow_http} : k \in DOMAIN m /\ m[k] = raw[k]
        /\ (S_allow_http \in DOMAIN m) = entry[1]
        /\ entry[1] => m[S_allow_http] = entry[2]

IsPresent(name) == env[name].state # "unset"
IsUnicode(name) == env[name].state = "unicode"

\* C3 as stated: the allow_http entry of new(raw) is the value of the first
\* of AWS_STORAGE_ALLOW_HTTP, AZURE_STORAGE_USE_HTTP, AZURE_STORAGE_ALLOW_HTTP
\* that is set, else raw's own entry; all other keys are carried over and
\* none is added.
C3_OverlayOfEverySetVariable ==
    ret.op = "new" => OverlayHolds(ret.raw, opts.map, {name \in EnvNames : IsPresent(name)})

\* C3 amended: the same, where a variable counts as set only if its value is
\* valid Unicode; a variable holding a value that is not is passed over.
C3_OverlayOfUnicodeVariables ==
    ret.op = "new" => OverlayHolds(ret.raw, opts.map, {name \in EnvNames : IsUnicode(name)})

\* C3 witness: all three variables set, the AWS one against the two Azure
\* ones and against the caller's own allow_http entry, and the AWS value kept.
C3_Witness ==
    /\ ret.op = "new"
    /\ env[V_AWS] = Present("0")
    /\ env[V_USE] = Present("true")
    /\ env[V_ALLOW] = Present("true")
    /\ S_allow_http \in DOMAIN ret.raw
    /\ ret.raw[S_allow_http] = "true"
    /\ S_bogus_key \in DOMAIN ret.raw
    /\ opts.map[S_allow_http] = "0"

\* C4 as stated: whenever AWS_STORAGE_ALLOW_HTTP is set, allow_http() on the
\* options just built by new(raw) is the truthiness of that variable's
\* value, whatever raw and the Azure variables hold.
C4_AwsVariableDecidesAllowHttp ==
    (ret.op = "new" /\ IsPresent(V_AWS))
        => (allow_http(opts.map) = str_is_truthy(env[V_AWS].value))

\* C4, what the code does instead: whenever AWS_STORAGE_ALLOW_HTTP is set to valid Unicode,
\* allow_http() on the options just built by new(raw) is true exactly when
\* that value is truthy or raw holds, under a key other than allow_http
\* whose lower-cased form contains allow_http, a truthy value.  The variable
\* wins over the Azure variables and over raw's allow_http entry only.
C4_AwsVariableOrOtherSpelling ==
    (ret.op = "new" /\ IsUnicode(V_AWS))
        => (allow_http(opts.map) =
               (\/ str_is_truthy(env[V_AWS].value)
                \/ \E k \in (DOMAIN ret.raw) \cap {S_ALLOW_HTTP, S_AWS_ALLOW_HTTP} :
                      ret.raw[k] \in {"true", "1"}))

\* C4, the case where the override does win: the AWS variable says no, the Azure variables and raw's
\* allow_http entry say yes, and allow_http() says no.
C4_Witness ==
    /\ ret.op = "new"
    /\ env[V_AWS] = Present("0")
    /\ env[V_USE] = Present("true")
    /\ env[V_ALLOW] = Present("true")
    /\ S_allow_http \in DOMAIN ret.raw
    /\ ret.raw[S_allow_http] = "true"
    /\ ~allow_http(opts.map)

\* C5: allow_http() is true exactly when some entry's key, lower-cased,
\* contains allow_http and its value is truthy ({"ALLOW_HTTP": "true"} gives
\* true, {"allow_http": "0"} and the empty bag give false), and the call
\* leaves the bag as it was.
C5_AllowHttpScansEveryKey ==
    ret.op = "allow_http" =>
        /\ ret.res = (\E k \in (DOMAIN ret.self) \cap {S_allow_http, S_ALLOW_HTTP, S_AWS_ALLOW_HTTP} :
                         ret.self[k] \in {"true", "1"})
        /\ (ret.self = (S_ALLOW_HTTP :> "true") => ret.res)
        /\ (ret.self = (S_allow_http :> "0") => ~ret.res)
        /\ (ret.self = EmptyBag => ~ret.res)
        /\ opts.map = ret.self

\* C5 witness: a bag without the key allow_http itself, whose upper-cased,
\* longer spelling makes allow_http() true.
C5_Witness ==
    /\ ret.op = "allow_http"
    /\ DOMAIN ret.self = {S_AWS_ALLOW_HTTP, S_bogus_key}
    /\ ret.self[S_AWS_ALLOW_HTTP] = "true"
    /\ ret.res

\* The typed key each raw key of the model stands for, per provider.
TypedKeyOf(op) ==
    CASE op = "as_s3_options" ->
             (S_AWS_ACCESS_KEY_ID :> "AccessKeyId") @@ (S_access_key_id :> "AccessKeyId")
             @@ (S_bucket :> "Bucket")
      [] op = "as_azure_options" -> (S_account_name :> "AccountName")
      [] op = "as_gcs_options" -> (S_bucket :> "Bucket")

\* C8: a provider view holds an entry for a typed key exactly when some raw
\* key, lower-cased, parses to it, with the value of such a raw key; raw keys
\* that do not parse are dropped and the bag is unchanged (as_s3_options on
\* {"AWS_ACCESS_KEY_ID": v, "bogus_key": w} holds only AccessKeyId -> v).
C8_ViewHoldsParsedKeysOnly ==
    view.op # "none" =>
        LET T   == TypedKeyOf(view.op)
            raw == (DOMAIN view.self) \cap (DOMAIN T)
        IN  /\ DOMAIN view.res = {T[k] : k \in raw}
            /\ \A t \in DOMAIN view.res : \E k \in raw : T[k] = t /\ view.res[t] = view.self[k]
            /\ opts.map = view.self
            /\ (view.op = "as_s3_options"
                  /\ view.self = (S_AWS_ACCESS_KEY_ID :> "true") @@ (S_bogus_key :> "0"))
               => view.res = ("AccessKeyId" :> "true")

\* C8 witness: the S3 view of {"AWS_ACCESS_KEY_ID": .., "bogus_key": ..}.
C8_Witness ==
    /\ view.op = "as_s3_options"
    /\ DOMAIN view.self = {S_AWS_ACCESS_KEY_ID, S_bogus_key}
    /\ DOMAIN view.res = {"AccessKeyId"}
    /\ view.res["AccessKeyId"] = view.self[S_AWS_ACCESS_KEY_ID]

\* C9: two calls of the same view on equal bags return the same mapping,
\* also when two raw keys meet in one typed key with different values.
C9_EqualBagsGiveEqualViews ==
    [][(view.op # "none" /\ view'.op = view.op /\ view'.self = view.self)
          => view'.res = view.res]_vars

----------------------------------------------------------------------------
(* Claims about parse_url.                                                 *)

\* The kind the scheme table gives each scheme.
SchemeTable ==
    (S_file :> "Local") @@ (S_memory :> "InMemory")
    @@ (S_az :> "Azure") @@ (S_abfs :> "Azure") @@ (S_abfss :> "Azure")
    @@ (S_azure :> "Azure") @@ (S_wasb :> "Azure") @@ (S_adl :> "Azure")
    @@ (S_s3 :> "S3") @@ (S_s3a :> "S3") @@ (S_gs :> "Google") @@ (S_hdfs :> "Hdfs")

\* the error parse_url gives for a URL it does not support: the generic
\* error whose message is "unsupported url: " and the URL
IsUnsupportedUrl(res, url) ==
    /\ ~res.ok
    /\ res.variant = "Generic"
    /\ res.msg = S_unsupported_url_ \o as_str(url)

\* C1: for a scheme other than https, parse_url gives the kind of the scheme
\* table, and for a scheme not in the table it fails with the unsupported-url
\* error carrying the URL (parse_url of ftp://x fails with ftp://x in the
\* message).
C1_SchemeTable ==
    (ret.op = "parse_url" /\ ret.url.scheme # S_https) =>
        /\ ret.url.scheme \in DOMAIN SchemeTable => ret.res = Ok(SchemeTable[ret.url.scheme])
        /\ ret.url.scheme \notin DOMAIN SchemeTable => IsUnsupportedUrl(ret.res, ret.url)
        /\ (ret.url.scheme = S_ftp /\ ret.url.host = Host(S_x))
              => (~ret.res.ok /\ contains(ret.res.msg, S_ftp_x))

\* C1 witness: adl://amazonaws.com/p, classified by its scheme, not its host.
C1_Witness ==
    /\ ret.op = "parse_url"
    /\ ret.url.scheme = S_adl
    /\ ret.url.host = Host(S_amazonaws_com)
    /\ ret.res = Ok("Azure")

\* C2 as stated: for an https URL, parse_url gives S3 when the host contains
\* amazonaws.com, Azure when it contains dfs.core.windows.net or
\* blob.core.windows.net, and the unsupported-url error carrying the URL
\* when it contains neither.
C2_HostDecidesHttps ==
    (ret.op = "parse_url" /\ ret.url.scheme = S_https) =>
        LET host  == host_str_or_default(ret.url)
            aws   == contains(host, S_amazonaws_com)
            azure == contains(host, S_dfs_core_windows_net)
                       \/ contains(host, S_blob_core_windows_net)
        IN  /\ aws => ret.res = Ok("S3")
            /\ azure => ret.res = Ok("Azure")
            /\ (~aws /\ ~azure) => IsUnsupportedUrl(ret.res, ret.url)

\* C2 amended: for an https URL, parse_url gives S3 when the host contains
\* amazonaws.com; Azure when it does not and contains dfs.core.windows.net or
\* blob.core.windows.net; and the unsupported-url error carrying the URL when
\* it contains neither.  Containment is anywhere in the host.
C2_HostDecidesHttpsAwsFirst ==
    (ret.op = "parse_url" /\ ret.url.scheme = S_https) =>
        LET host  == host_str_or_default(ret.url)
            aws   == contains(host, S_amazonaws_com)
            azure == contains(host, S_dfs_core_windows_net)
                       \/ contains(host, S_blob_core_windows_net)
        IN  /\ aws => ret.res = Ok("S3")
            /\ (~aws /\ azure) => ret.res = Ok("Azure")
            /\ (~aws /\ ~azure) => IsUnsupportedUrl(ret.res, ret.url)

\* C2 witness: https://blob.core.windows.netx/, whose host holds the Azure
\* name but does not end in it.
C2_Witness ==
    /\ ret.op = "parse_url"
    /\ ret.url.scheme = S_https
    /\ ret.url.host = Host(S_blob_core_windows_net \o S_x)
    /\ ret.res = Ok("Azure")

----------------------------------------------------------------------------
(* Claims about into_impl.                                                 *)

\* The features that compile each provider's arm in, and the name the
\* error gives when none of them is on.
FeaturesOf ==
    ("S3" :> {"s3", "s3-native-tls"}) @@ ("Azure" :> {"azure"})
    @@ ("Google" :> {"gcs"}) @@ ("Hdfs" :> {"hdfs"})

FeatureName == ("S3" :> "s3") @@ ("Azure" :> "azure") @@ ("Google" :> "gcs") @@ ("Hdfs" :> "hdfs")

ModuleOn(kind) == FeaturesOf[kind] \cap features # {}

\* C6: into_impl with a kind whose module is not in the build fails with
\* MissingFeature carrying the feature name (s3, azure, gcs, hdfs) and the
\* URL string, for every URL and option bag, and makes no provider call;
\* Local and InMemory always return a client.
C6_MissingFeature ==
    built.op = "into_impl" =>
        /\ (built.kind \in DOMAIN FeaturesOf /\ ~ModuleOn(built.kind)) =>
              /\ built.res = MissingFeature(FeatureName[built.kind], as_str(built.url))
              /\ built.calls = <<>>
        /\ built.kind \in {"Local", "InMemory"} =>
              (built.res.ok /\ built.res.value.inner.kind = built.kind)

\* C6 witness: Google in a build with every feature but gcs, with options.
C6_Witness ==
    /\ built.op = "into_impl"
    /\ built.kind = "Google"
    /\ features = Features \ {"gcs"}
    /\ built.options # EmptyBag
    /\ ~built.res.ok
    /\ built.res.variant = "MissingFeature"
    /\ built.res.feature = "gcs"

IsProviderBuild ==
    /\ built.op = "into_impl"
    /\ built.kind \in {"S3", "Azure", "Google"}
    /\ ModuleOn(built.kind)

\* the calls on the provider builder, up to and with build
BuilderCalls == SelectSeq(built.calls, LAMBDA c : c # "S3StorageBackend::try_new")

\* C10 as stated: an enabled provider's builder is configured in the order
\* environment defaults, option overlay, URL, http-allowed flag (S3 and
\* Azure only), build.
C10_OverlayThenUrl ==
    (IsProviderBuild /\ built.ext.fails = "none") =>
        BuilderCalls = IF built.kind = "Google"
                       THEN <<"from_env", "try_with_options", "with_url", "build">>
                       ELSE <<"from_env", "try_with_options", "with_url",
                              "with_allow_http", "build">>

\* the typed view of the options of the build, which hold no two keys of
\* one typed key
ViewOfBuild ==
    LET T == TypedKeyOf(CASE built.kind = "S3" -> "as_s3_options"
                          [] built.kind = "Azure" -> "as_azure_options"
                          [] built.kind = "Google" -> "as_gcs_options")
        raw == (DOMAIN built.options) \cap (DOMAIN T)
    IN  [t \in {T[k] : k \in raw} |-> built.options[CHOOSE k \in raw : T[k] = t]]

\* C10 amended: an enabled provider's builder is configured in the order
\* environment defaults, URL, option overlay, http-allowed flag (S3 and
\* Azure only, never Google), build, each once; so the option view prevails
\* over the environment defaults and the flag, allow_http(), over both.  A
\* failure of the overlay or of the provider build is returned to the
\* caller wrapped, after no further call and with no client.
C10_UrlThenOverlay ==
    IsProviderBuild =>
        LET cfg == built.res.value.inner.config
            dk  == DefaultKey(built.kind)
        IN  /\ built.ext.fails = "none" =>
                /\ BuilderCalls = IF built.kind = "Google"
                                  THEN <<"from_env", "with_url", "try_with_options", "build">>
                                  ELSE <<"from_env", "with_url", "try_with_options",
                                         "with_allow_http", "build">>
                /\ built.res.ok
                /\ cfg.url = as_str(built.url)
                /\ \A t \in DOMAIN ViewOfBuild :
                      t \in DOMAIN cfg.options /\ cfg.options[t] = ViewOfBuild[t]
                /\ (built.ext.defaults /\ dk \notin DOMAIN ViewOfBuild)
                      => (dk \in DOMAIN cfg.options /\ cfg.options[dk] = "env")
                /\ DOMAIN cfg.options \subseteq (DOMAIN ViewOfBuild) \cup {dk}
                /\ cfg.allow_http = IF built.kind = "Google" THEN built.ext.defaults
                                    ELSE \E k \in (DOMAIN built.options) \cap {S_allow_http} :
                                            built.options[k] \in {"true", "1"}
            /\ built.ext.fails = "try_with_options" =>
                /\ built.res = ProviderError("try_with_options")
                /\ built.calls = <<"from_env", "with_url", "try_with_options">>
            /\ built.ext.fails = "build" =>
                /\ built.res = ProviderError("build")
                /\ built.calls[Len(built.calls)] = "build"
                /\ Cardinality({i \in 1..Len(built.calls) : built.calls[i] = "build"}) = 1

\* C10 witness: an S3 build whose options override the access key of the
\* environment and say no to http where the environment says yes.
C10_Witness ==
    /\ IsProviderBuild
    /\ built.kind = "S3"
    /\ built.ext = [defaults |-> TRUE, fails |-> "none"]
    /\ built.options = (S_AWS_ACCESS_KEY_ID :> "true") @@ (S_allow_http :> "0")
    /\ built.res.ok
    /\ built.res.value.inner.config.options["AccessKeyId"] = "true"
    /\ ~built.res.value.inner.config.allow_http

----------------------------------------------------------------------------
(* Claims about the handle.                                                *)

\* the raw path a caller's location stands for under the URL of the build:
\* the URL's path, a slash, the location
RawPath(location) == Path_from(built.url.path \o S_slash \o location)

\* C7: the handle of a successful build is the raw client itself when the
\* URL's normalized path is the root, and otherwise a wrapper through which
\* every operation on a location is the operation on prefix/location of the
\* raw client and every listed path comes back with the prefix stripped (for
\* memory:///a/b, a read of "c" is the raw read of /a/b/c).
C7_HandleIsRawClientUnderPrefix ==
    HasHandle =>
        LET h    == built.res.value
            root == Path_from(built.url.path)
        IN  /\ h.wrapped = (root # <<>>)
            /\ h.inner.kind = built.kind
            /\ ret.op = "get" => ret.res = raw_get(store, RawPath(ret.location))
            /\ ret.op = "put" => store = raw_put(ret.before, RawPath(ret.location), ret.value)
            /\ ret.op = "delete" => store = raw_delete(ret.before, RawPath(ret.location))
            /\ ret.op = "list" =>
                  /\ \A r \in ret.res : root \o r \in DOMAIN store
                  /\ \A q \in DOMAIN store :
                        (Len(q) > Len(root) /\ SubSeq(q, 1, Len(root)) = root)
                            => SubSeq(q, Len(root) + 1, Len(q)) \in ret.res
            /\ (built.url.path = <<"/", "a", "/", "b">> /\ ret.op = "get" /\ ret.location = S_c)
                  => ret.res = raw_get(store, <<S_a, S_b, S_c>>)

\* C7 witness: under memory:///a/b a read of "c" returns what the raw store
\* holds at /a/b/c, not what it holds at /c.
C7_Witness ==
    /\ HasHandle
    /\ built.url.path = <<"/", "a", "/", "b">>
    /\ built.res.value.wrapped
    /\ ret.op = "get"
    /\ ret.location = S_c
    /\ DOMAIN store = {<<S_c>>, <<S_a, S_b, S_c>>}
    /\ store[<<S_c>>] = "0"
    /\ ret.res = Ok("true")

====
